---------------------------- MODULE Spec2Model ----------------------------
(***************************************************************************)
(* A model of the quickfix data dictionary (datadictionary package:        *)
(* src/unnamed/part_000) and of the generator's global field catalog and   *)
(* field usage tracker (internal package: src/unnamed/part_001).           *)
(*                                                                         *)
(* Go pointers are modelled as indices into heaps (sequences of objects,   *)
(* 0 is the nil pointer); Go maps as functions with a finite domain.       *)
(***************************************************************************)
EXTENDS Integers, Sequences, FiniteSets, TLC

(***************************************************************************)
(* Bounds of the model.                                                    *)
(***************************************************************************)
NumTasks == 2        \* goroutines calling isFieldUsageOk
MaxCalls == 3        \* calls of isFieldUsageOk in one run
MaxResets == 2       \* calls of ClearGlobalFieldUsage in one run

Tasks == 1..NumTasks
MsgKeys == {"NewOrderSingle", "Heartbeat"}
UsageTags == {11, 55}
Pairs == MsgKeys \X UsageTags

VARIABLES
  \* ---- internal package, usage tracker (part_001 lines 12-22) ----
  globalFieldUsage,       \* [nil, m]: the map msgKey -> *usageMap, nil until made
  globalFieldUsageMutex,  \* sync.RWMutex: [w |-> writer or 0, r |-> set of readers]
  usageMaps,              \* heap of usageMap objects: [Mutex, Map]
  tasks,                  \* per goroutine: position in isFieldUsageOk and its locals
  panicked,               \* a goroutine panicked: the process is gone
  \* ---- datadictionary package: every object the program has allocated ----
  heap,                   \* [fieldTypes, enumMaps, fieldDefs, componentTypes,
                          \*  messageDefs, dicts, panic]
  \* ---- history of the run (not program state) ----
  prev,                   \* the heap before the last operation on the dictionaries
  lastOp,                 \* the last operation on the dictionaries
  mergesLeft,
  \* ---- internal package, global field catalog (part_001 lines 18-19) ----
  globalFieldTypesLookup, \* map name -> *FieldType, nil until built
  GlobalFieldTypes,       \* []*FieldType
  \* ---- history of the run (not program state) ----
  called,                 \* pairs for which isFieldUsageOk was called since the last reset
  trueReturns,            \* per pair: calls that returned true since the last reset
  callsLeft,
  resetsLeft

usageVars == <<globalFieldUsage, globalFieldUsageMutex, usageMaps, tasks, panicked,
               called, trueReturns, callsLeft, resetsLeft>>

dictVars == <<heap, prev, lastOp, mergesLeft, globalFieldTypesLookup, GlobalFieldTypes>>

vars == <<usageVars, dictVars>>

(***************************************************************************)
(* Go maps as functions.                                                   *)
(***************************************************************************)
EmptyMap == <<>>
MapPut(m, k, v) == (k :> v) @@ m
HasKey(m, k) == k \in DOMAIN m

(***************************************************************************)
(* sync.RWMutex.  Lock needs no holder at all, RLock needs no writer.      *)
(***************************************************************************)
NewMutex == [w |-> 0, r |-> {}]
CanRLock(mu) == mu.w = 0
CanLock(mu) == mu.w = 0 /\ mu.r = {}
RLock(mu, t) == [mu EXCEPT !.r = @ \cup {t}]
RUnlock(mu, t) == [mu EXCEPT !.r = @ \ {t}]
Lock(mu, t) == [mu EXCEPT !.w = t]
Unlock(mu) == [mu EXCEPT !.w = 0]

(***************************************************************************)
(* Loops.  A range over a slice visits its elements in order.  A range     *)
(* over a map visits the keys in an order Go leaves open: the model takes  *)
(* the ascending or the descending order (ord).  An entry created during   *)
(* the range may be produced or skipped: the model produces the created    *)
(* keys that are in the set `visit`, after the keys that were there.       *)
(***************************************************************************)
RECURSIVE FoldSeq(_, _, _)
FoldSeq(Body(_, _), acc, s) ==
  IF s = <<>> THEN acc ELSE FoldSeq(Body, Body(acc, Head(s)), Tail(s))

RECURSIVE Ascending(_)
Ascending(S) ==
  IF S = {} THEN <<>>
  ELSE LET x == CHOOSE x \in S : \A y \in S : x <= y
       IN <<x>> \o Ascending(S \ {x})

Reverse(s) == [i \in 1..Len(s) |-> s[Len(s) + 1 - i]]

Orders == {"asc", "desc"}

\* The keys of a map keyed by tag, in the order of the range.
TagKeys(S, ord) == IF ord = "asc" THEN Ascending(S) ELSE Reverse(Ascending(S))

AllValues == <<"CS", "PS", "a", "b">>

\* The keys of a map keyed by enum value, in the order of the range.
ValueKeys(S, ord) ==
  LET asc == SelectSeq(AllValues, LAMBDA v : v \in S)
  IN IF ord = "asc" THEN asc ELSE Reverse(asc)

AllNames == <<"FreeText", "Inner", "LegSide", "M", "NoDeep", "NoLegs", "NoNested",
              "Parties", "SecurityType", "Symbol", "Text">>

\* The keys of a map keyed by name, in the order of the range.
NameKeys(S, ord) ==
  LET asc == SelectSeq(AllNames, LAMBDA n : n \in S)
  IN IF ord = "asc" THEN asc ELSE Reverse(asc)

(***************************************************************************)
(* The data dictionary: objects and constructors.                          *)
(*                                                                         *)
(* heap.fieldTypes[i]     = [name, tag, Enums]   Enums: index of an enum   *)
(*                          map in heap.enumMaps, 0 for a nil map          *)
(* heap.enumMaps[e]       = function  enum value -> description            *)
(* heap.fieldDefs[i]      = [FieldType, required, Parts, Fields,           *)
(*                          requiredFields]   (FieldType embeds by pointer)*)
(* heap.componentTypes[i] = [name, parts, fields, requiredFields]          *)
(* heap.messageDefs[i]    = [Name, Fields, Parts, RequiredTags, Tags]      *)
(* heap.dicts[i]          = [FieldTypeByTag, FieldTypeByName, Messages,    *)
(*                          ComponentTypes]                                *)
(* A MessagePart is [kind, id, required]: kind "field" with the index of a *)
(* FieldDef (required is then read from the FieldDef), or kind "component" *)
(* with the index of a ComponentType and the Component's own flag.         *)
(***************************************************************************)
EmptyHeap == [fieldTypes |-> <<>>, enumMaps |-> <<>>, fieldDefs |-> <<>>,
              componentTypes |-> <<>>, messageDefs |-> <<>>, dicts |-> <<>>,
              panic |-> FALSE]

FieldPart(fd) == [kind |-> "field", id |-> fd, required |-> FALSE]

\* NewComponent(ct, required)
NewComponent(ct, required) == [kind |-> "component", id |-> ct, required |-> required]

\* FieldType.Name(), FieldType.Tag() and Enums, promoted to the FieldDef.
FdType(h, fd) == h.fieldTypes[h.fieldDefs[fd].FieldType]
FdTag(h, fd) == FdType(h, fd).tag
FdName(h, fd) == FdType(h, fd).name

\* MessagePart.Name()
PartName(h, p) ==
  IF p.kind = "field" THEN FdName(h, p.id) ELSE h.componentTypes[p.id].name

\* MessagePart.Required()
PartRequired(h, p) ==
  IF p.kind = "field" THEN h.fieldDefs[p.id].required ELSE p.required

\* FieldDef.IsGroup()
IsGroup(h, fd) == Len(h.fieldDefs[fd].Fields) > 0

\* The enumerated values of a field type.
EnumValues(h, ft) ==
  IF h.fieldTypes[ft].Enums = 0 THEN {} ELSE DOMAIN h.enumMaps[h.fieldTypes[ft].Enums]

\* NewFieldType(name, tag, fixType): the new object is the last of h.fieldTypes.
NewFieldType(h, name, tag) ==
  [h EXCEPT !.fieldTypes = Append(@, [name |-> name, tag |-> tag, Enums |-> 0])]

\* NewFieldDef(fieldType, required): the new object is the last of h.fieldDefs.
NewFieldDef(h, fieldType, required) ==
  [h EXCEPT !.fieldDefs = Append(@, [FieldType |-> fieldType, required |-> required,
                                     Parts |-> <<>>, Fields |-> <<>>,
                                     requiredFields |-> <<>>])]

\* The fields a list of parts contributes: a component all its (flattened)
\* fields, a field or group itself.
RECURSIVE PartsFields(_, _)
PartsFields(h, parts) ==
  IF parts = <<>> THEN <<>>
  ELSE LET p == Head(parts)
       IN (IF p.kind = "component" THEN h.componentTypes[p.id].fields ELSE <<p.id>>)
          \o PartsFields(h, Tail(parts))

\* The required fields a list of parts contributes: a required component its
\* required fields, a required field itself.
RECURSIVE PartsRequiredFields(_, _)
PartsRequiredFields(h, parts) ==
  IF parts = <<>> THEN <<>>
  ELSE LET p == Head(parts)
       IN (IF ~PartRequired(h, p) THEN <<>>
           ELSE IF p.kind = "component" THEN h.componentTypes[p.id].requiredFields
           ELSE <<p.id>>)
          \o PartsRequiredFields(h, Tail(parts))

\* NewGroupFieldDef(fieldType, required, parts).  A part is a Component only
\* as "part.(Component)", which a *Component made by NewComponent is not, and
\* it is no *FieldDef either: panic("unknown part").
NewGroupFieldDef(h, fieldType, required, parts) ==
  IF \E i \in DOMAIN parts : parts[i].kind = "component"
    THEN [h EXCEPT !.panic = TRUE]
    ELSE [h EXCEPT !.fieldDefs =
            Append(@, [FieldType |-> fieldType, required |-> required,
                       Parts |-> parts,
                       Fields |-> PartsFields(h, parts),
                       requiredFields |-> PartsRequiredFields(h, parts)])]

\* NewComponentType(name, parts)
NewComponentType(h, name, parts) ==
  [h EXCEPT !.componentTypes =
     Append(@, [name |-> name, parts |-> parts,
                fields |-> PartsFields(h, parts),
                requiredFields |-> PartsRequiredFields(h, parts)])]

\* FieldDef.childTags(): the tags of the fields below a group, at any depth.
RECURSIVE childTags(_, _)
childTags(h, fd) ==
  LET kids == h.fieldDefs[fd].Fields
  IN UNION {{FdTag(h, kids[i])} \cup childTags(h, kids[i]) : i \in DOMAIN kids}

\* processField of NewMessageDef: the field enters Fields and Tags, its
\* descendants enter Tags only; it is required if allowRequired and required.
processField(h, msg, field, allowRequired) ==
  [msg EXCEPT !.Fields = MapPut(@, FdTag(h, field), field),
              !.Tags = @ \cup {FdTag(h, field)} \cup childTags(h, field),
              !.RequiredTags = IF allowRequired /\ h.fieldDefs[field].required
                                 THEN @ \cup {FdTag(h, field)} ELSE @]

RECURSIVE processFields(_, _, _, _)
processFields(h, msg, fields, allowRequired) ==
  IF fields = <<>> THEN msg
  ELSE processFields(h, processField(h, msg, Head(fields), allowRequired),
                     Tail(fields), allowRequired)

RECURSIVE processParts(_, _, _)
processParts(h, msg, parts) ==
  IF parts = <<>> THEN msg
  ELSE LET p == Head(parts)
           m2 == IF p.kind = "component"
                   THEN processFields(h, msg, h.componentTypes[p.id].fields, p.required)
                   ELSE processField(h, msg, p.id, TRUE)
       IN processParts(h, m2, Tail(parts))

\* NewMessageDef(name, msgType, parts)
NewMessageDef(h, name, parts) ==
  [h EXCEPT !.messageDefs =
     Append(@, processParts(h, [Name |-> name, Fields |-> EmptyMap, Parts |-> parts,
                                RequiredTags |-> {}, Tags |-> {}], parts))]

(***************************************************************************)
(* The builder (ParseSrc, line 568-569: b.build(doc)): a decoded document  *)
(* [fields, components, messages] becomes a dictionary.  A member of a     *)
(* component, message or group is [kind, name, required, members].         *)
(* The builder's state is [h, dict, parts]: the heap, the dictionary being *)
(* built, and the parts built so far for the current declaration.          *)
(***************************************************************************)
\* The field definition just made becomes the next part.
appendNewField(b) ==
  [b EXCEPT !.parts = Append(@, FieldPart(Len(b.h.fieldDefs)))]

RECURSIVE buildParts(_, _)

\* A group member: its own members are built first, then the group is
\* made of them and becomes the next part of the enclosing declaration.
buildGroup(b, sub, mb) ==
  appendNewField(
    [b EXCEPT !.h = NewGroupFieldDef(sub.h, b.dict.FieldTypeByName[mb.name],
                                     mb.required, sub.parts)])

buildPart(b, mb) ==
  CASE mb.kind = "component" ->
         [b EXCEPT !.parts =
            Append(@, NewComponent(b.dict.ComponentTypes[mb.name], mb.required))]
    [] mb.kind = "group" ->
         buildGroup(b, buildParts([b EXCEPT !.parts = <<>>], mb.members), mb)
    [] OTHER ->
         appendNewField(
           [b EXCEPT !.h = NewFieldDef(b.h, b.dict.FieldTypeByName[mb.name],
                                       mb.required)])

buildParts(b, members) ==
  IF members = <<>> THEN b
  ELSE buildParts(buildPart(b, Head(members)), Tail(members))

\* A field type and, when the document gives it values, its enum map.
buildFieldType(b, d) ==
  LET ft == Len(b.h.fieldTypes) + 1
      em == Len(b.h.enumMaps) + 1
  IN [b EXCEPT
        !.h = IF DOMAIN d.values = {}
                THEN NewFieldType(b.h, d.name, d.tag)
                ELSE [NewFieldType(b.h, d.name, d.tag) EXCEPT
                        !.enumMaps = Append(@, d.values),
                        !.fieldTypes[ft].Enums = em],
        !.dict.FieldTypeByTag = MapPut(@, d.tag, ft),
        !.dict.FieldTypeByName = MapPut(@, d.name, ft)]

\* The component type made of the parts just built.
addComponentType(b, name) ==
  [b EXCEPT !.h = NewComponentType(b.h, name, b.parts),
            !.dict.ComponentTypes = MapPut(@, name, Len(b.h.componentTypes) + 1),
            !.parts = <<>>]

\* The message made of the parts just built.
addMessageDef(b, name) ==
  [b EXCEPT !.h = NewMessageDef(b.h, name, b.parts),
            !.dict.Messages = MapPut(@, name, Len(b.h.messageDefs) + 1),
            !.parts = <<>>]

buildFieldTypes(b, decls) == FoldSeq(buildFieldType, b, decls)

buildComponents(b, decls) ==
  FoldSeq(LAMBDA a, d : addComponentType(buildParts(a, d.members), d.name), b, decls)

buildMessageDefs(b, decls) ==
  FoldSeq(LAMBDA a, d : addMessageDef(buildParts(a, d.members), d.name), b, decls)

\* The dictionary built becomes the last of heap.dicts.
addDict(b) == [b.h EXCEPT !.dicts = Append(@, b.dict)]

\* build(doc): field types, then component types, then messages.
build(h, doc) ==
  addDict(
    buildMessageDefs(
      buildComponents(
        buildFieldTypes(
          [h |-> h, parts |-> <<>>,
           dict |-> [FieldTypeByTag |-> EmptyMap, FieldTypeByName |-> EmptyMap,
                     Messages |-> EmptyMap, ComponentTypes |-> EmptyMap]],
          doc.fields),
        doc.components),
      doc.messages))

(***************************************************************************)
(* The documents the model loads.                                          *)
(***************************************************************************)
NoValues == <<>>
FieldDecl(name, tag, values) == [name |-> name, tag |-> tag, values |-> values]
Fld(name, required) ==
  [kind |-> "field", name |-> name, required |-> required, members |-> <<>>]
Grp(name, required, members) ==
  [kind |-> "group", name |-> name, required |-> required, members |-> members]
Cmp(name, required) ==
  [kind |-> "component", name |-> name, required |-> required, members |-> <<>>]
Decl(name, members) == [name |-> name, members |-> members]

\* The field types every document declares; tag 1 under the name and with the
\* enumerated values the document gives them.
CommonFields(n1, e1) ==
  <<FieldDecl(n1, 1, e1), FieldDecl("Symbol", 2, NoValues),
    FieldDecl("NoLegs", 3, NoValues), FieldDecl("LegSide", 4, NoValues),
    FieldDecl("NoNested", 5, NoValues), FieldDecl("NoDeep", 6, NoValues)>>

Shapes == {"catalog", "comp1", "comp2", "nested", "group", "kind", "compgroup"}

Doc(shape, n1, e1, rc, ri) ==
  CASE shape = "catalog" ->
         [fields |-> CommonFields(n1, e1), components |-> <<>>, messages |-> <<>>]
    [] shape = "comp1" ->
         [fields |-> CommonFields(n1, e1),
          components |-> <<Decl("Parties", <<Fld("Symbol", FALSE)>>)>>,
          messages |-> <<Decl("M", <<Fld(n1, TRUE), Cmp("Parties", rc)>>)>>]
    [] shape = "comp2" ->
         [fields |-> CommonFields(n1, e1),
          components |-> <<Decl("Parties", <<Fld("Symbol", FALSE), Fld("LegSide", ri)>>)>>,
          messages |-> <<Decl("M", <<Fld(n1, TRUE), Cmp("Parties", rc)>>)>>]
    [] shape = "nested" ->
         [fields |-> CommonFields(n1, e1),
          components |-> <<Decl("Inner", <<Fld("Symbol", TRUE)>>),
                           Decl("Parties", <<Cmp("Inner", ri)>>)>>,
          messages |-> <<Decl("M", <<Cmp("Parties", rc)>>)>>]
    [] shape = "group" ->
         [fields |-> CommonFields(n1, e1),
          components |-> <<>>,
          messages |-> <<Decl("M", <<Fld(n1, TRUE),
                           Grp("NoLegs", rc, <<Fld("LegSide", TRUE),
                              Grp("NoNested", FALSE,
                                  <<Grp("NoDeep", FALSE, <<Fld("Symbol", ri)>>)>>)>>)>>)>>]
    [] shape = "kind" ->
         [fields |-> CommonFields(n1, e1) \o <<FieldDecl("Parties", 7, NoValues)>>,
          components |-> <<>>,
          messages |-> <<Decl("M", <<Fld(n1, TRUE), Fld("Parties", rc)>>)>>]
    [] shape = "compgroup" ->
         [fields |-> CommonFields(n1, e1),
          components |-> <<Decl("Parties",
                                <<Grp("NoLegs", FALSE, <<Fld("LegSide", ri)>>)>>)>>,
          messages |-> <<Decl("M", <<Cmp("Parties", rc)>>)>>]

(***************************************************************************)
(* The merge operations.                                                   *)
(***************************************************************************)
\* FieldType.Merge (f, oth: field types): the receiver keeps its values and
\* gains the missing ones; a receiver without a map takes the other's map.
FieldTypeMerge(h, f, oth) ==
  LET fe == h.fieldTypes[f].Enums
      oe == h.fieldTypes[oth].Enums
  IN IF h.fieldTypes[f].tag # h.fieldTypes[oth].tag THEN h
     ELSE IF fe # 0
       THEN IF oe = 0 THEN h ELSE [h EXCEPT !.enumMaps[fe] = @ @@ h.enumMaps[oe]]
       ELSE [h EXCEPT !.fieldTypes[f].Enums = oe]

\* The map of a group's fields by tag (a later field of the same tag wins).
FieldsByTag(h, fields) ==
  FoldSeq(LAMBDA m, fd : MapPut(m, FdTag(h, fd), fd), EmptyMap, fields)

\* FieldDef.Merge, lines 284-295, the enums: nothing to range over in a nil
\* or empty map; a nil receiver map becomes the other's map, and then holds
\* every key; otherwise the receiver gains the values it lacks.
mergeEnums(h, f, oth) ==
  LET ft == h.fieldDefs[f].FieldType
      fe == h.fieldTypes[ft].Enums
      oe == FdType(h, oth).Enums
  IN IF oe = 0 THEN h
     ELSE IF DOMAIN h.enumMaps[oe] = {} THEN h
     ELSE IF fe = 0 THEN [h EXCEPT !.fieldTypes[ft].Enums = oe]
     ELSE [h EXCEPT !.enumMaps[fe] = @ @@ h.enumMaps[oe]]

RECURSIVE FieldDefMerge(_, _, _)

\* FieldDef.Merge, lines 297-310, the fields of a group: a field of a tag the
\* receiver had before the loop is merged, another one is appended.
mergeGroupFields(h, f, existingGrpTags, fields) ==
  FoldSeq(LAMBDA g, ogfld :
            IF HasKey(existingGrpTags, FdTag(g, ogfld))
              THEN FieldDefMerge(g, existingGrpTags[FdTag(g, ogfld)], ogfld)
              ELSE [g EXCEPT !.fieldDefs[f].Fields = Append(@, ogfld)],
          h, fields)

mergeGroup(h, f, oth) ==
  IF IsGroup(h, f) /\ IsGroup(h, oth)
    THEN mergeGroupFields(h, f, FieldsByTag(h, h.fieldDefs[f].Fields),
                          h.fieldDefs[oth].Fields)
    ELSE h

\* FieldDef.Merge (f, oth: field definitions), lines 279-313.
FieldDefMerge(h, f, oth) ==
  IF FdTag(h, f) # FdTag(h, oth) THEN h ELSE mergeGroup(mergeEnums(h, f, oth), f, oth)

\* The body of ComponentType.Merge, lines 144-161, on the receiver c: the
\* heap after it and the receiver's fields and requiredFields after it.
ComponentTypeMergeBody(h, c, coth) ==
  FoldSeq(LAMBDA s, fld :
            IF ~HasKey(s.fieldByTag, FdTag(s.h, fld))
              THEN [s EXCEPT !.fieldByTag = MapPut(@, FdTag(s.h, fld), fld),
                             !.fields = Append(@, fld),
                             !.requiredFields =
                                IF s.h.fieldDefs[fld].required
                                  THEN Append(@, fld) ELSE @]
              ELSE [s EXCEPT !.h = FieldDefMerge(s.h, s.fieldByTag[FdTag(s.h, fld)], fld)],
          [h |-> h, fieldByTag |-> FieldsByTag(h, c.fields),
           fields |-> c.fields, requiredFields |-> c.requiredFields],
          h.componentTypes[coth].fields)

\* ComponentType.Merge (c, coth: component types), line 143.  The receiver
\* is a value, "func (c ComponentType) Merge": the method works on a copy of
\* the ComponentType, and the fields it appends are gone when it returns.
\* What stays is what it did through pointers, the merges of field
\* definitions.
ComponentTypeMerge(h, c, coth) ==
  ComponentTypeMergeBody(h, h.componentTypes[c], coth).h

\* "if existingFld, exists := m.Fields[tag]; !exists { m.Fields[tag] = fld;
\* m.Tags.Add(tag) } else { existingFld.Merge(fld) }"
PutOrMerge(h, m, tag, fld) ==
  IF ~HasKey(h.messageDefs[m].Fields, tag)
    THEN [h EXCEPT !.messageDefs[m].Fields = MapPut(@, tag, fld),
                   !.messageDefs[m].Tags = @ \cup {tag}]
    ELSE FieldDefMerge(h, h.messageDefs[m].Fields[tag], fld)

\* The children of a group enter the message's flat index, lines 395-407
\* and 480-490.
PromoteChildren(h, m, fld) ==
  IF IsGroup(h, fld)
    THEN FoldSeq(LAMBDA g, subfld : PutOrMerge(g, m, FdTag(g, subfld), subfld),
                 h, h.fieldDefs[fld].Fields)
    ELSE h

\* A range over the map Fields of message `over` whose body may add entries to
\* that very map: h2 is the heap after an iteration.
RECURSIVE RangeFields(_, _, _, _, _, _)
RangeFields(Body(_, _), h, over, todo, ord, visit) ==
  IF todo = <<>> THEN h
  ELSE LET h2 == Body(h, Head(todo))
           created == (DOMAIN h2.messageDefs[over].Fields
                         \ DOMAIN h.messageDefs[over].Fields) \cap visit
       IN RangeFields(Body, h2, over, Tail(todo) \o TagKeys(created, ord), ord, visit)

\* The fields of a part of the other message enter the receiver's index:
\* lines 422-431 and 452-461 for a component, 436-443 and 464-471 for a field.
PartFields(h, m, opart) ==
  IF opart.kind = "component"
    THEN FoldSeq(LAMBDA g, fld : PutOrMerge(g, m, FdTag(g, fld), fld),
                 h, h.componentTypes[opart.id].fields)
    ELSE PutOrMerge(h, m, FdTag(h, opart.id), opart.id)

\* One part of the other message, lines 415-476.  opart.(messagePartWithFields)
\* and opart.(*FieldDef) are type assertions without ", ok": they panic on a
\* part of the other kind.
MergePart(h, m, partsByName, opart) ==
  IF h.panic THEN h
  ELSE IF HasKey(partsByName, PartName(h, opart))
    THEN IF partsByName[PartName(h, opart)].kind # opart.kind
           THEN [h EXCEPT !.panic = TRUE]
           ELSE PartFields(h, m, opart)
    ELSE PartFields([h EXCEPT !.messageDefs[m].Parts = Append(@, opart)], m, opart)

\* MessageDef.Merge, lines 385-408: the fields of the other message.
mergeOtherFields(h, m, other, ord, visit) ==
  RangeFields(LAMBDA g, tag :
                PromoteChildren(PutOrMerge(g, m, tag, g.messageDefs[other].Fields[tag]),
                                m, g.messageDefs[other].Fields[tag]),
              h, other, TagKeys(DOMAIN h.messageDefs[other].Fields, ord), ord, visit)

\* MessageDef.Merge, lines 410-413.
PartsByName(h, m) ==
  FoldSeq(LAMBDA pm, p : MapPut(pm, PartName(h, p), p), EmptyMap, h.messageDefs[m].Parts)

\* MessageDef.Merge, lines 415-477: the parts of the other message.
mergeOtherParts(h, m, partsByName, oparts) ==
  FoldSeq(LAMBDA g, opart : MergePart(g, m, partsByName, opart), h, oparts)

\* MessageDef.Merge, lines 479-491: the children of the receiver's groups.
promoteOwnGroups(h, m, ord, visit) ==
  IF h.panic THEN h
  ELSE RangeFields(LAMBDA g, tag : PromoteChildren(g, m, g.messageDefs[m].Fields[tag]),
                   h, m, TagKeys(DOMAIN h.messageDefs[m].Fields, ord), ord, visit)

afterOtherFields(h, m, other, ord, visit) ==
  promoteOwnGroups(mergeOtherParts(h, m, PartsByName(h, m), h.messageDefs[other].Parts),
                   m, ord, visit)

\* MessageDef.Merge (m, other: message definitions), lines 383-498.
MessageDefMerge(h, m, other, ord, visit) ==
  afterOtherFields(mergeOtherFields(h, m, other, ord, visit), m, other, ord, visit)

\* "if _, exists := ours.FieldTypeByTag[key]; !exists { ...ByTag[key] =
\* fld.FieldType; ...ByName[fld.name] = fld.FieldType; newFieldDefs =
\* append(newFieldDefs, fld) }" on s = [h, newFieldDefs].
AddFieldType(s, ours, key, fld) ==
  IF HasKey(s.h.dicts[ours].FieldTypeByTag, key) THEN s
  ELSE [h |-> [s.h EXCEPT
                 !.dicts[ours].FieldTypeByTag = MapPut(@, key, s.h.fieldDefs[fld].FieldType),
                 !.dicts[ours].FieldTypeByName =
                    MapPut(@, FdName(s.h, fld), s.h.fieldDefs[fld].FieldType)],
        newFieldDefs |-> Append(s.newFieldDefs, fld)]

\* The loops over the parts of a message or component of the other
\* dictionary, lines 600-622 and 643-665: the fields of a component part and a
\* field part enter the catalog under their tags.
AddPartsFieldTypes(s, ours, parts) ==
  FoldSeq(LAMBDA a, part :
            IF part.kind = "component"
              THEN FoldSeq(LAMBDA b, fld : AddFieldType(b, ours, FdTag(b.h, fld), fld),
                           a, a.h.componentTypes[part.id].fields)
              ELSE AddFieldType(a, ours, FdTag(a.h, part.id), part.id),
          s, parts)

\* Lines 582-588: our message of that name merges the other's, or the
\* other's message becomes ours.
putMessage(s, ours, mk, mv, ord, visit) ==
  [s EXCEPT !.h = IF HasKey(s.h.dicts[ours].Messages, mk)
                    THEN MessageDefMerge(s.h, s.h.dicts[ours].Messages[mk], mv, ord, visit)
                    ELSE [s.h EXCEPT !.dicts[ours].Messages = MapPut(@, mk, mv)]]

\* Lines 590-622, "for ftag, fld := range mv.Fields" and the parts of mv.
addMessageFieldTypes(s, ours, mv, ord) ==
  IF s.h.panic THEN s
  ELSE AddPartsFieldTypes(
         FoldSeq(LAMBDA a, ftag :
                   AddFieldType(a, ours, ftag, a.h.messageDefs[mv].Fields[ftag]),
                 s, TagKeys(DOMAIN s.h.messageDefs[mv].Fields, ord)),
         ours, s.h.messageDefs[mv].Parts)

\* One message of the other dictionary, lines 581-623.
MergeMessage(s, ours, other, mk, ord, visit) ==
  IF s.h.panic THEN s
  ELSE addMessageFieldTypes(
         putMessage(s, ours, mk, s.h.dicts[other].Messages[mk], ord, visit),
         ours, s.h.dicts[other].Messages[mk], ord)

\* Lines 626-630: our component type of that name merges the other's, or the
\* other's component type becomes ours.
putComponent(s, ours, ck, kv) ==
  [s EXCEPT !.h = IF HasKey(s.h.dicts[ours].ComponentTypes, ck)
                    THEN ComponentTypeMerge(s.h, s.h.dicts[ours].ComponentTypes[ck], kv)
                    ELSE [s.h EXCEPT !.dicts[ours].ComponentTypes = MapPut(@, ck, kv)]]

\* Lines 632-665.  In "for ftag, fld := range kv.Fields()" the range is over
\* a slice: ftag is the position of the field in it, from 0.
addComponentFieldTypes(s, ours, kv) ==
  AddPartsFieldTypes(
    FoldSeq(LAMBDA a, i : AddFieldType(a, ours, i - 1, s.h.componentTypes[kv].fields[i]),
            s, [i \in 1..Len(s.h.componentTypes[kv].fields) |-> i]),
    ours, s.h.componentTypes[kv].parts)

\* One component type of the other dictionary, lines 625-666.
MergeComponent(s, ours, other, ck) ==
  addComponentFieldTypes(putComponent(s, ours, ck, s.h.dicts[other].ComponentTypes[ck]),
                         ours, s.h.dicts[other].ComponentTypes[ck])

\* Lines 668-683, for one field of one of our messages: a field the catalog
\* lacks enters it; a field whose name differs from the catalog's name for
\* the tag enters the catalog by name only.
ReconcileField(h, ours, tag, fld) ==
  LET ft == h.fieldDefs[fld].FieldType
  IN IF ~HasKey(h.dicts[ours].FieldTypeByTag, tag)
       THEN [h EXCEPT !.dicts[ours].FieldTypeByTag = MapPut(@, tag, ft),
                      !.dicts[ours].FieldTypeByName = MapPut(@, FdName(h, fld), ft)]
       ELSE IF h.fieldTypes[h.dicts[ours].FieldTypeByTag[tag]].name # FdName(h, fld)
         THEN [h EXCEPT !.dicts[ours].FieldTypeByName = MapPut(@, FdName(h, fld), ft)]
         ELSE h

\* Lines 685-695, for one new field definition.  In "for fsubtag, subfld :=
\* range fld.Fields" the range is over a slice: fsubtag is a position, from 0.
MigrateNewFieldDef(h, ours, fld) ==
  IF ~IsGroup(h, fld) THEN h
  ELSE FoldSeq(LAMBDA g, i :
                 IF HasKey(g.dicts[ours].FieldTypeByTag, i - 1) THEN g
                 ELSE [g EXCEPT
                         !.dicts[ours].FieldTypeByTag =
                            MapPut(@, i - 1, g.fieldDefs[h.fieldDefs[fld].Fields[i]].FieldType),
                         !.dicts[ours].FieldTypeByName =
                            MapPut(@, FdName(g, h.fieldDefs[fld].Fields[i]),
                                   g.fieldDefs[h.fieldDefs[fld].Fields[i]].FieldType)],
               h, [i \in 1..Len(h.fieldDefs[fld].Fields) |-> i])

\* Lines 697-705, for one tag of the other catalog.
MergeCatalogTag(h, ours, other, tag) ==
  LET othFld == h.dicts[other].FieldTypeByTag[tag]
  IN IF HasKey(h.dicts[ours].FieldTypeByTag, tag)
       THEN FieldTypeMerge(h, h.dicts[ours].FieldTypeByTag[tag], othFld)
       ELSE [h EXCEPT !.dicts[ours].FieldTypeByTag = MapPut(@, tag, othFld),
                      !.dicts[ours].FieldTypeByName =
                         MapPut(@, h.fieldTypes[othFld].name, othFld)]

\* Lines 707-712, for one name of the other catalog: a name we lack enters
\* both indexes, and takes the place of whatever we held under its tag.
MergeCatalogName(h, ours, other, name) ==
  LET othFld == h.dicts[other].FieldTypeByName[name]
  IN IF HasKey(h.dicts[ours].FieldTypeByName, name) THEN h
     ELSE [h EXCEPT !.dicts[ours].FieldTypeByTag =
                       MapPut(@, h.fieldTypes[othFld].tag, othFld),
                    !.dicts[ours].FieldTypeByName = MapPut(@, name, othFld)]

\* Lines 581-623: the messages of the other dictionary.
mergeMessages(s, ours, other, ord, visit) ==
  FoldSeq(LAMBDA a, mk : MergeMessage(a, ours, other, mk, ord, visit),
          s, NameKeys(DOMAIN s.h.dicts[other].Messages, ord))

\* Lines 625-666: the component types of the other dictionary.
mergeComponents(s, ours, other, ord) ==
  FoldSeq(LAMBDA a, ck : MergeComponent(a, ours, other, ck),
          s, NameKeys(DOMAIN s.h.dicts[other].ComponentTypes, ord))

\* Lines 668-683: the fields of our messages against the catalog.
reconcileMessages(s, ours, ord) ==
  [s EXCEPT !.h =
     FoldSeq(LAMBDA g, mk :
               FoldSeq(LAMBDA g2, tag :
                         ReconcileField(g2, ours, tag,
                                        g2.messageDefs[g.dicts[ours].Messages[mk]].Fields[tag]),
                       g, TagKeys(DOMAIN g.messageDefs[g.dicts[ours].Messages[mk]].Fields, ord)),
             s.h, NameKeys(DOMAIN s.h.dicts[ours].Messages, ord))]

\* Lines 685-695: the new field definitions.
migrateNewFieldDefs(s, ours) ==
  FoldSeq(LAMBDA g, fld : MigrateNewFieldDef(g, ours, fld), s.h, s.newFieldDefs)

\* Lines 697-705: the other catalog by tag.
mergeCatalogByTag(h, ours, other, ord) ==
  FoldSeq(LAMBDA g, tag : MergeCatalogTag(g, ours, other, tag),
          h, TagKeys(DOMAIN h.dicts[other].FieldTypeByTag, ord))

\* Lines 707-712: the other catalog by name.
mergeCatalogByName(h, ours, other, ord) ==
  FoldSeq(LAMBDA g, name : MergeCatalogName(g, ours, other, name),
          h, NameKeys(DOMAIN h.dicts[other].FieldTypeByName, ord))

\* Lines 625-715: what follows the messages, unless a message merge panicked.
afterMessages(s, ours, other, ord) ==
  IF s.h.panic THEN s.h
  ELSE mergeCatalogByName(
         mergeCatalogByTag(
           migrateNewFieldDefs(
             reconcileMessages(mergeComponents(s, ours, other, ord), ours, ord),
             ours),
           ours, other, ord),
         ours, other, ord)

\* DataDictionary.Merge (ours, other: dictionaries), lines 577-715.
DataDictionaryMerge(h, ours, other, ord, visit) ==
  afterMessages(mergeMessages([h |-> h, newFieldDefs |-> <<>>], ours, other, ord, visit),
                ours, other, ord)

(***************************************************************************)
(* The dictionaries of the model: two documents are built, then merged.    *)
(***************************************************************************)
MaxMerges == 2       \* calls of DataDictionary.Merge in one run

EnumsA == {NoValues, [a |-> "x"]}
EnumsB == {[b |-> "y"]}

\* The first dictionary: every shape, with the required flags of the nested
\* components both ways; tag 1 is "Text", with or without values.
DocsA ==
  {Doc(shape, "Text", e1, TRUE, TRUE) : shape \in Shapes, e1 \in EnumsA}
  \cup {Doc("nested", "Text", NoValues, rc, ri) : rc \in BOOLEAN, ri \in BOOLEAN}

\* The second dictionary: every shape; tag 1 is "Text" without values, or
\* "FreeText" with values of its own.
DocsB ==
  {Doc(shape, "Text", NoValues, TRUE, FALSE) : shape \in Shapes}
  \cup {Doc(shape, "FreeText", e1, TRUE, FALSE) : shape \in Shapes, e1 \in EnumsB}

\* The tags of the groups of the heap: the entries whose visit matters when
\* they are created during a range.
GroupTags(h) == {FdTag(h, fd) : fd \in {i \in DOMAIN h.fieldDefs : IsGroup(h, i)}}

InitDict ==
  /\ \E docA \in DocsA, docB \in DocsB : heap = build(build(EmptyHeap, docA), docB)
  /\ prev = EmptyHeap
  /\ lastOp = [op |-> "build", ours |-> 0, other |-> 0]
  /\ mergesLeft = MaxMerges
  /\ globalFieldTypesLookup = EmptyMap
  /\ GlobalFieldTypes = <<>>

\* ours.Merge(other)
Merge(ours, other, ord, visit) ==
  /\ ~heap.panic
  /\ mergesLeft > 0
  /\ heap' = DataDictionaryMerge(heap, ours, other, ord, visit)
  /\ prev' = heap
  /\ lastOp' = [op |-> "merge", ours |-> ours, other |-> other]
  /\ mergesLeft' = mergesLeft - 1
  /\ UNCHANGED <<globalFieldTypesLookup, GlobalFieldTypes>>
  /\ UNCHANGED usageVars

NextDict ==
  \E ours \in DOMAIN heap.dicts, other \in DOMAIN heap.dicts, ord \in Orders,
     visit \in SUBSET GroupTags(heap) :
       Merge(ours, other, ord, visit)

(***************************************************************************)
(* The usage tracker.                                                      *)
(***************************************************************************)
IdleTask == [pc |-> "idle", msgKey |-> "", tag |-> 0, fieldMap |-> 0,
             existing |-> FALSE, alreadyProcessed |-> FALSE, deferred |-> FALSE,
             ret |-> "none", expect |-> FALSE, claimed |-> FALSE]

InFlight(t) == tasks[t].pc \notin {"idle", "done", "panic"}

InitTracker ==
  /\ globalFieldUsage = [nil |-> TRUE, m |-> EmptyMap]
  /\ globalFieldUsageMutex = NewMutex
  /\ usageMaps = <<>>
  /\ tasks = [t \in Tasks |-> IdleTask]
  /\ panicked = FALSE
  /\ called = {}
  /\ trueReturns = [p \in Pairs |-> 0]
  /\ callsLeft = MaxCalls
  /\ resetsLeft = MaxResets

\* ClearGlobalFieldUsage: a fresh, empty map, written without any lock.  It is
\* called between generation runs, when no isFieldUsageOk call is in flight.
ClearGlobalFieldUsage ==
  /\ ~panicked
  /\ resetsLeft > 0
  /\ \A t \in Tasks : ~InFlight(t)
  /\ globalFieldUsage' = [nil |-> FALSE, m |-> EmptyMap]
  /\ called' = {}
  /\ trueReturns' = [p \in Pairs |-> 0]
  /\ resetsLeft' = resetsLeft - 1
  /\ UNCHANGED <<globalFieldUsageMutex, usageMaps, tasks, panicked, callsLeft>>
  /\ UNCHANGED dictVars

\* A goroutine enters isFieldUsageOk(msgKey, f), f.Tag() = tag.
Call(t, k, tag) ==
  /\ ~panicked
  /\ callsLeft > 0
  /\ ~InFlight(t)
  /\ tasks' = [tasks EXCEPT ![t] = [IdleTask EXCEPT !.pc = "L64", !.msgKey = k,
                                      !.tag = tag,
                                      !.expect = (<<k, tag>> \notin called),
                                      !.claimed = (trueReturns[<<k, tag>>] > 0)]]
  /\ called' = called \cup {<<k, tag>>}
  /\ callsLeft' = callsLeft - 1
  /\ UNCHANGED <<globalFieldUsage, globalFieldUsageMutex, usageMaps, panicked,
                 trueReturns, resetsLeft>>
  /\ UNCHANGED dictVars

Goto(t, label) == [tasks EXCEPT ![t].pc = label]

\* line 64: globalFieldUsageMutex.RLock()
L64(t) ==
  /\ ~panicked /\ tasks[t].pc = "L64"
  /\ CanRLock(globalFieldUsageMutex)
  /\ globalFieldUsageMutex' = RLock(globalFieldUsageMutex, t)
  /\ tasks' = Goto(t, "L65")
  /\ UNCHANGED <<globalFieldUsage, usageMaps, panicked, called, trueReturns,
                 callsLeft, resetsLeft>>
  /\ UNCHANGED dictVars

\* line 65: fieldMap, existing := globalFieldUsage[msgKey] (reading a nil map is fine)
L65(t) ==
  /\ ~panicked /\ tasks[t].pc = "L65"
  /\ LET k == tasks[t].msgKey
         ex == HasKey(globalFieldUsage.m, k)
     IN tasks' = [tasks EXCEPT ![t].pc = "L66",
                               ![t].existing = ex,
                               ![t].fieldMap = IF ex THEN globalFieldUsage.m[k] ELSE 0]
  /\ UNCHANGED <<globalFieldUsage, globalFieldUsageMutex, usageMaps, panicked,
                 called, trueReturns, callsLeft, resetsLeft>>
  /\ UNCHANGED dictVars

\* line 66-67: globalFieldUsageMutex.RUnlock(); if !existing
L66(t) ==
  /\ ~panicked /\ tasks[t].pc = "L66"
  /\ globalFieldUsageMutex' = RUnlock(globalFieldUsageMutex, t)
  /\ tasks' = Goto(t, IF tasks[t].existing THEN "L75" ELSE "L69")
  /\ UNCHANGED <<globalFieldUsage, usageMaps, panicked, called, trueReturns,
                 callsLeft, resetsLeft>>
  /\ UNCHANGED dictVars

\* line 69-70: globalFieldUsageMutex.Lock(); defer Unlock (held until the return)
L69(t) ==
  /\ ~panicked /\ tasks[t].pc = "L69"
  /\ CanLock(globalFieldUsageMutex)
  /\ globalFieldUsageMutex' = Lock(globalFieldUsageMutex, t)
  /\ tasks' = [tasks EXCEPT ![t].pc = "L71", ![t].deferred = TRUE]
  /\ UNCHANGED <<globalFieldUsage, usageMaps, panicked, called, trueReturns,
                 callsLeft, resetsLeft>>
  /\ UNCHANGED dictVars

\* line 71-72: fieldMap = &usageMap{...}; globalFieldUsage[msgKey] = fieldMap.
\* Without a second look at the map: an entry made meanwhile is overwritten.
\* Assignment to an entry of a nil map panics.
L71(t) ==
  /\ ~panicked /\ tasks[t].pc = "L71"
  /\ LET new == Len(usageMaps) + 1
     IN /\ usageMaps' = Append(usageMaps, [Mutex |-> NewMutex, Map |-> {}])
        /\ IF globalFieldUsage.nil
             THEN /\ panicked' = TRUE
                  /\ tasks' = Goto(t, "panic")
                  /\ UNCHANGED globalFieldUsage
             ELSE /\ globalFieldUsage' =
                       [globalFieldUsage EXCEPT !.m = MapPut(@, tasks[t].msgKey, new)]
                  /\ tasks' = [tasks EXCEPT ![t].pc = "L75", ![t].fieldMap = new]
                  /\ UNCHANGED panicked
  /\ UNCHANGED <<globalFieldUsageMutex, called, trueReturns, callsLeft, resetsLeft>>
  /\ UNCHANGED dictVars

\* line 75: fieldMap.Mutex.RLock()
L75(t) ==
  /\ ~panicked /\ tasks[t].pc = "L75"
  /\ LET fm == tasks[t].fieldMap
     IN /\ CanRLock(usageMaps[fm].Mutex)
        /\ usageMaps' = [usageMaps EXCEPT ![fm].Mutex = RLock(@, t)]
  /\ tasks' = Goto(t, "L76")
  /\ UNCHANGED <<globalFieldUsage, globalFieldUsageMutex, panicked, called,
                 trueReturns, callsLeft, resetsLeft>>
  /\ UNCHANGED dictVars

\* line 76: _, alreadyProcessed := fieldMap.Map[f.Tag()]
L76(t) ==
  /\ ~panicked /\ tasks[t].pc = "L76"
  /\ tasks' = [tasks EXCEPT ![t].pc = "L77",
                            ![t].alreadyProcessed =
                                (tasks[t].tag \in usageMaps[tasks[t].fieldMap].Map)]
  /\ UNCHANGED <<globalFieldUsage, globalFieldUsageMutex, usageMaps, panicked,
                 called, trueReturns, callsLeft, resetsLeft>>
  /\ UNCHANGED dictVars

\* line 77-79: fieldMap.Mutex.RUnlock(); if alreadyProcessed
L77(t) ==
  /\ ~panicked /\ tasks[t].pc = "L77"
  /\ usageMaps' = [usageMaps EXCEPT ![tasks[t].fieldMap].Mutex = RUnlock(@, t)]
  /\ tasks' = Goto(t, IF tasks[t].alreadyProcessed THEN "L81" ELSE "L85")
  /\ UNCHANGED <<globalFieldUsage, globalFieldUsageMutex, panicked, called,
                 trueReturns, callsLeft, resetsLeft>>
  /\ UNCHANGED dictVars

\* The return: the result, and the deferred globalFieldUsageMutex.Unlock().
Return(t, result) ==
  /\ tasks' = [tasks EXCEPT ![t].pc = "done", ![t].ret = result, ![t].deferred = FALSE]
  /\ globalFieldUsageMutex' =
       IF tasks[t].deferred THEN Unlock(globalFieldUsageMutex) ELSE globalFieldUsageMutex
  /\ trueReturns' =
       IF result = "true"
         THEN [trueReturns EXCEPT ![<<tasks[t].msgKey, tasks[t].tag>>] = @ + 1]
         ELSE trueReturns

\* line 81: return false
L81(t) ==
  /\ ~panicked /\ tasks[t].pc = "L81"
  /\ Return(t, "false")
  /\ UNCHANGED <<globalFieldUsage, usageMaps, panicked, called, callsLeft, resetsLeft>>
  /\ UNCHANGED dictVars

\* line 85: fieldMap.Mutex.Lock()
L85(t) ==
  /\ ~panicked /\ tasks[t].pc = "L85"
  /\ LET fm == tasks[t].fieldMap
     IN /\ CanLock(usageMaps[fm].Mutex)
        /\ usageMaps' = [usageMaps EXCEPT ![fm].Mutex = Lock(@, t)]
  /\ tasks' = Goto(t, "L86")
  /\ UNCHANGED <<globalFieldUsage, globalFieldUsageMutex, panicked, called,
                 trueReturns, callsLeft, resetsLeft>>
  /\ UNCHANGED dictVars

\* line 86: fieldMap.Map[f.Tag()] = true
L86(t) ==
  /\ ~panicked /\ tasks[t].pc = "L86"
  /\ usageMaps' = [usageMaps EXCEPT ![tasks[t].fieldMap].Map = @ \cup {tasks[t].tag}]
  /\ tasks' = Goto(t, "L87")
  /\ UNCHANGED <<globalFieldUsage, globalFieldUsageMutex, panicked, called,
                 trueReturns, callsLeft, resetsLeft>>
  /\ UNCHANGED dictVars

\* line 87: fieldMap.Mutex.Unlock()
L87(t) ==
  /\ ~panicked /\ tasks[t].pc = "L87"
  /\ usageMaps' = [usageMaps EXCEPT ![tasks[t].fieldMap].Mutex = Unlock(@)]
  /\ tasks' = Goto(t, "L89")
  /\ UNCHANGED <<globalFieldUsage, globalFieldUsageMutex, panicked, called,
                 trueReturns, callsLeft, resetsLeft>>
  /\ UNCHANGED dictVars

\* line 89: return true
L89(t) ==
  /\ ~panicked /\ tasks[t].pc = "L89"
  /\ Return(t, "true")
  /\ UNCHANGED <<globalFieldUsage, usageMaps, panicked, called, callsLeft, resetsLeft>>
  /\ UNCHANGED dictVars

\* One step of isFieldUsageOk in goroutine t.
isFieldUsageOk(t) ==
  \/ L64(t) \/ L65(t) \/ L66(t) \/ L69(t) \/ L71(t) \/ L75(t) \/ L76(t)
  \/ L77(t) \/ L81(t) \/ L85(t) \/ L86(t) \/ L87(t) \/ L89(t)

\* Goroutines call isFieldUsageOk concurrently.
NextUsage ==
  \/ ClearGlobalFieldUsage
  \/ \E t \in Tasks, k \in MsgKeys, tag \in UsageTags : Call(t, k, tag)
  \/ \E t \in Tasks : isFieldUsageOk(t)

\* The tracker alone: no dictionary is loaded.
NoDict ==
  /\ heap = EmptyHeap
  /\ prev = EmptyHeap
  /\ lastOp = [op |-> "build", ours |-> 0, other |-> 0]
  /\ mergesLeft = 0
  /\ globalFieldTypesLookup = EmptyMap
  /\ GlobalFieldTypes = <<>>

InitUsage == InitTracker /\ NoDict

SpecUsage == InitUsage /\ [][NextUsage]_vars

\* One caller: a call starts only when no other call is in flight.
CallSeq(t, k, tag) ==
  /\ \A u \in Tasks : ~InFlight(u)
  /\ Call(t, k, tag)

NextSeqUsage ==
  \/ ClearGlobalFieldUsage
  \/ \E t \in Tasks, k \in MsgKeys, tag \in UsageTags : CallSeq(t, k, tag)
  \/ \E t \in Tasks : isFieldUsageOk(t)

SpecSeqUsage == InitUsage /\ [][NextSeqUsage]_vars

(***************************************************************************)
(* The global field catalog, BuildGlobalFieldTypes (part_001 lines 92-144) *)
(* on g = [h, lookup]: the heap and globalFieldTypesLookup.                *)
(***************************************************************************)
\* The check of lines 106-112 left out: every old value is kept.
okToKeepEnumAlways(h, field, description) == TRUE

\* Lines 106-112: no enum of the field has that description.
okToKeepEnum(h, field, description) ==
  \A w \in DOMAIN h.enumMaps[h.fieldTypes[field].Enums] :
    h.enumMaps[h.fieldTypes[field].Enums][w] # description

\* Lines 104-117: an old value the field lacks enters it, unless its
\* description is the description of an enum the field has.
keepEnum(h, field, enumVal, description) ==
  IF enumVal \in DOMAIN h.enumMaps[h.fieldTypes[field].Enums] THEN h
  ELSE IF okToKeepEnum(h, field, description)
    THEN [h EXCEPT !.enumMaps[h.fieldTypes[field].Enums] = MapPut(@, enumVal, description)]
    ELSE h

\* Lines 99-101: a field without a map gets one when the old field has values.
makeEnums(h, field, oldField) ==
  IF EnumValues(h, oldField) # {} /\ h.fieldTypes[field].Enums = 0
    THEN [h EXCEPT !.enumMaps = Append(@, EmptyMap),
                   !.fieldTypes[field].Enums = Len(h.enumMaps) + 1]
    ELSE h

\* Lines 103-118: the values of the old field, in the order of the range.
mergeOldEnums(h, field, oldField, ord) ==
  FoldSeq(LAMBDA a, enumVal :
            keepEnum(a, field, enumVal, a.enumMaps[a.fieldTypes[oldField].Enums][enumVal]),
          h, ValueKeys(EnumValues(h, oldField), ord))

\* Lines 96-122, one field type of one dictionary.
addGlobalField(g, field, ord) ==
  [h |-> IF HasKey(g.lookup, g.h.fieldTypes[field].name)
           THEN mergeOldEnums(makeEnums(g.h, field, g.lookup[g.h.fieldTypes[field].name]),
                              field, g.lookup[g.h.fieldTypes[field].name], ord)
           ELSE g.h,
   lookup |-> MapPut(g.lookup, g.h.fieldTypes[field].name, field)]

\* Lines 94-125: the field types of the dictionaries, by tag.
scanByTag(g, specs, ord) ==
  FoldSeq(LAMBDA a, spec :
            FoldSeq(LAMBDA b, tag : addGlobalField(b, b.h.dicts[spec].FieldTypeByTag[tag], ord),
                    a, TagKeys(DOMAIN a.h.dicts[spec].FieldTypeByTag, ord)),
          g, specs)

\* sort.Sort(byFieldTag(...)), line 134: by insertion.
RECURSIVE insertByTag(_, _, _)
insertByTag(h, sorted, ft) ==
  IF sorted = <<>> THEN <<ft>>
  ELSE IF h.fieldTypes[ft].tag < h.fieldTypes[Head(sorted)].tag THEN <<ft>> \o sorted
  ELSE <<Head(sorted)>> \o insertByTag(h, Tail(sorted), ft)

\* Lines 127-134: the entries of the lookup, sorted by tag.
sortedEntries(g, ord) ==
  FoldSeq(LAMBDA sorted, name : insertByTag(g.h, sorted, g.lookup[name]),
          <<>>, NameKeys(DOMAIN g.lookup, ord))

\* Lines 136-143: the names of the dictionaries the lookup lacks.
scanAliases(g, specs, ord) ==
  FoldSeq(LAMBDA a, spec :
            FoldSeq(LAMBDA b, fieldName :
                      IF HasKey(b.lookup, fieldName) THEN b
                      ELSE [b EXCEPT !.lookup =
                              MapPut(@, fieldName, b.h.dicts[spec].FieldTypeByName[fieldName])],
                    a, NameKeys(DOMAIN a.h.dicts[spec].FieldTypeByName, ord)),
          g, specs)

\* Lines 127-143: the list is made of the lookup before the aliases enter it.
listAndAliases(g, specs, ord) ==
  [h |-> g.h, list |-> sortedEntries(g, ord), lookup |-> scanAliases(g, specs, ord).lookup]

\* BuildGlobalFieldTypes(specs): the heap, the lookup and the list after it.
BuildGlobalFieldTypes(h, specs, ord) ==
  listAndAliases(scanByTag([h |-> h, lookup |-> EmptyMap], specs, ord), specs, ord)

(***************************************************************************)
(* The global catalog alone: dictionaries that declare the field type      *)
(* "SecurityType" with various values are built, then passed in some order *)
(* to BuildGlobalFieldTypes.                                               *)
(***************************************************************************)
NumDicts == 2        \* dictionaries passed to BuildGlobalFieldTypes

\* The values a dictionary gives "SecurityType": none, one, a synonym of it
\* (another value, the same description), the same value under another
\* description, two values, two values of one description.
GlobalEnums ==
  {NoValues,
   [CS |-> "Common Stock"],
   [PS |-> "Common Stock"],
   [CS |-> "Common"],
   [PS |-> "Preferred"],
   [CS |-> "Common Stock", PS |-> "Preferred"],
   [CS |-> "Common Stock", PS |-> "Common Stock"]}

GlobalDoc(e) ==
  [fields |-> <<FieldDecl("SecurityType", 1, e), FieldDecl("Symbol", 2, NoValues)>>,
   components |-> <<>>, messages |-> <<>>]

\* The orders in which the dictionaries are passed.
SpecOrders ==
  {p \in [1..NumDicts -> 1..NumDicts] : \A i, j \in 1..NumDicts : p[i] = p[j] => i = j}

InitGlobal ==
  /\ InitTracker
  /\ \E es \in [1..NumDicts -> GlobalEnums] :
       heap = FoldSeq(LAMBDA h, e : build(h, GlobalDoc(e)), EmptyHeap, es)
  /\ prev = EmptyHeap
  /\ lastOp = [op |-> "build", ours |-> 0, other |-> 0]
  /\ mergesLeft = 0
  /\ globalFieldTypesLookup = EmptyMap
  /\ GlobalFieldTypes = <<>>

\* BuildGlobalFieldTypes(specs), once, by a process that is still running.
BuildGlobal(specs, ord) ==
  /\ lastOp.op # "global"
  /\ ~heap.panic
  /\ heap' = BuildGlobalFieldTypes(heap, specs, ord).h
  /\ globalFieldTypesLookup' = BuildGlobalFieldTypes(heap, specs, ord).lookup
  /\ GlobalFieldTypes' = BuildGlobalFieldTypes(heap, specs, ord).list
  /\ prev' = heap
  /\ lastOp' = [op |-> "global", specs |-> specs]
  /\ UNCHANGED mergesLeft
  /\ UNCHANGED usageVars

NextGlobal ==
  \E specs \in SpecOrders, ord \in Orders : BuildGlobal(specs, ord)

SpecGlobal == InitGlobal /\ [][NextGlobal]_vars

(***************************************************************************)
(* The dictionaries alone: the tracker is not used.                        *)
(***************************************************************************)
Init == InitDict /\ InitTracker

Next == NextDict

Spec == Init /\ [][Next]_vars

(***************************************************************************)
(* Dictionaries are built and merged, then passed to                       *)
(* BuildGlobalFieldTypes: the generator's run over merged dictionaries.    *)
(***************************************************************************)
\* The orders in which the dictionaries of the heap are passed.
DictOrders ==
  {p \in [DOMAIN heap.dicts -> DOMAIN heap.dicts] :
     \A i, j \in DOMAIN heap.dicts : p[i] = p[j] => i = j}

NextMergeGlobal ==
  \/ \E ours \in DOMAIN heap.dicts, other \in DOMAIN heap.dicts, ord \in Orders,
        visit \in SUBSET GroupTags(heap) :
          lastOp.op # "global" /\ Merge(ours, other, ord, visit)
  \/ \E specs \in DictOrders, ord \in Orders : BuildGlobal(specs, ord)

SpecMergeGlobal == Init /\ [][NextMergeGlobal]_vars

(***************************************************************************)
(* C1: exactly one of the concurrent calls for a pair returns true.        *)
(***************************************************************************)
PairInFlight(p) ==
  \E t \in Tasks : InFlight(t) /\ <<tasks[t].msgKey, tasks[t].tag>> = p

\* C1: on a tracker that has been reset, once all the calls of
\* isFieldUsageOk made for a pair (messageKey, tag) have returned, exactly one
\* of them has returned true, whatever the interleaving.
ExactlyOneClaim ==
  \A p \in Pairs :
    (~globalFieldUsage.nil /\ p \in called /\ ~PairInFlight(p)) => trueReturns[p] = 1

(***************************************************************************)
(* C2: the flat index of a message holds every tag below its parts.        *)
(***************************************************************************)
\* The tags met by walking parts: through a component its parts, through a
\* group its parts, at any depth.
RECURSIVE ReachableTags(_, _)
ReachableTags(h, parts) ==
  UNION {IF parts[i].kind = "component"
           THEN ReachableTags(h, h.componentTypes[parts[i].id].parts)
           ELSE {FdTag(h, parts[i].id)} \cup ReachableTags(h, h.fieldDefs[parts[i].id].Parts)
         : i \in DOMAIN parts}

\* C2: for every message definition, right after NewMessageDef and after
\* any merges, every tag reachable by walking its parts is a key of its
\* Fields and a member of its Tags.
FlatteningInvariant ==
  \A m \in DOMAIN heap.messageDefs :
    /\ ReachableTags(heap, heap.messageDefs[m].Parts) \subseteq DOMAIN heap.messageDefs[m].Fields
    /\ ReachableTags(heap, heap.messageDefs[m].Parts) \subseteq heap.messageDefs[m].Tags

(***************************************************************************)
(* C3, C5, C6, C8: the dictionary after ours.Merge(other), against the     *)
(* dictionaries before it (prev).                                          *)
(***************************************************************************)
Merged == lastOp.op = "merge" /\ ~heap.panic

\* The tags of a list of field definitions.
FieldTags(h, fields) == {FdTag(h, fields[i]) : i \in DOMAIN fields}

\* C3: after A.Merge(B) the keys of A.FieldTypeByTag include the keys A and
\* B had before, and A's entry for a tag it had holds every enumerated value
\* A's entry for that tag held before.
MergeMonotone ==
  Merged =>
    /\ (DOMAIN prev.dicts[lastOp.ours].FieldTypeByTag
          \cup DOMAIN prev.dicts[lastOp.other].FieldTypeByTag)
         \subseteq DOMAIN heap.dicts[lastOp.ours].FieldTypeByTag
    /\ \A tag \in DOMAIN prev.dicts[lastOp.ours].FieldTypeByTag :
         EnumValues(prev, prev.dicts[lastOp.ours].FieldTypeByTag[tag])
           \subseteq EnumValues(heap, heap.dicts[lastOp.ours].FieldTypeByTag[tag])

\* C5: after A.Merge(B), a component type both had under one name has, in
\* A, the tags A's had and the tags B's had.
ComponentMergeAppends ==
  Merged =>
    \A ck \in DOMAIN prev.dicts[lastOp.ours].ComponentTypes
                \cap DOMAIN prev.dicts[lastOp.other].ComponentTypes :
      FieldTags(heap, heap.componentTypes[heap.dicts[lastOp.ours].ComponentTypes[ck]].fields)
        = FieldTags(prev, prev.componentTypes[prev.dicts[lastOp.ours].ComponentTypes[ck]].fields)
            \cup FieldTags(prev, prev.componentTypes[prev.dicts[lastOp.other].ComponentTypes[ck]].fields)

\* C6: after A.Merge(B), a tag that A and B had under two names is, in A,
\* still A's entry under A's name.
ReceiverWins ==
  Merged =>
    \A tag \in DOMAIN prev.dicts[lastOp.ours].FieldTypeByTag
                 \cap DOMAIN prev.dicts[lastOp.other].FieldTypeByTag :
      prev.fieldTypes[prev.dicts[lastOp.ours].FieldTypeByTag[tag]].name
          # prev.fieldTypes[prev.dicts[lastOp.other].FieldTypeByTag[tag]].name
        => /\ heap.dicts[lastOp.ours].FieldTypeByTag[tag]
                = prev.dicts[lastOp.ours].FieldTypeByTag[tag]
           /\ heap.fieldTypes[heap.dicts[lastOp.ours].FieldTypeByTag[tag]].name
                = prev.fieldTypes[prev.dicts[lastOp.ours].FieldTypeByTag[tag]].name

\* C8: A.Merge(A) leaves the keys of A.FieldTypeByTag, the keys of Fields
\* and the Tags of every message, the field list of every component type and
\* the enumerated values of every field type as they were.
MergeIdempotent ==
  (Merged /\ lastOp.ours = lastOp.other) =>
    /\ DOMAIN heap.dicts[lastOp.ours].FieldTypeByTag
         = DOMAIN prev.dicts[lastOp.ours].FieldTypeByTag
    /\ \A m \in DOMAIN prev.messageDefs :
         /\ DOMAIN heap.messageDefs[m].Fields = DOMAIN prev.messageDefs[m].Fields
         /\ heap.messageDefs[m].Tags = prev.messageDefs[m].Tags
    /\ \A c \in DOMAIN prev.componentTypes :
         heap.componentTypes[c].fields = prev.componentTypes[c].fields
    /\ \A ft \in DOMAIN prev.fieldTypes : EnumValues(heap, ft) = EnumValues(prev, ft)

(***************************************************************************)
(* C4: a field is required in a message only through required components.  *)
(***************************************************************************)
\* The tags of the required fields met by walking parts through required
\* components only.
RECURSIVE ContextRequired(_, _)
ContextRequired(h, parts) ==
  UNION {IF parts[i].kind = "component"
           THEN IF parts[i].required
                  THEN ContextRequired(h, h.componentTypes[parts[i].id].parts)
                  ELSE {}
           ELSE IF h.fieldDefs[parts[i].id].required
                  THEN {FdTag(h, parts[i].id)}
                  ELSE {}
         : i \in DOMAIN parts}

\* C4: in a message built by NewMessageDef, a tag is in RequiredTags only
\* if the field is required and so is every component around it, at every
\* level, on the way to the message.
RequiredContextual ==
  lastOp.op = "build" =>
    \A m \in DOMAIN heap.messageDefs :
      heap.messageDefs[m].RequiredTags
        \subseteq ContextRequired(heap, heap.messageDefs[m].Parts)

(***************************************************************************)
(* C7: no merge aborts.                                                    *)
(***************************************************************************)
\* C7: every Merge of two constructed dictionaries runs to its end: no
\* type assertion of MessageDef.Merge panics.
MergeTotal == ~heap.panic

(***************************************************************************)
(* C9: sequential calls and resets.                                        *)
(***************************************************************************)
\* C9: in a sequential run, every call isFieldUsageOk(k, t) that has ended
\* returned true if and only if no earlier call for (k, t) was made since the
\* most recent reset, or since the start when there was no reset; a call that
\* ends in a panic has returned nothing.
SeqTrueIffFirst ==
  \A t \in Tasks :
    tasks[t].pc \in {"done", "panic"} => (tasks[t].ret = "true" <=> tasks[t].expect)

(***************************************************************************)
(* C11: one claim set per message key, and no claim is lost.               *)
(***************************************************************************)
\* C11: whatever the interleaving of the calls for a message key, the
\* claim set a call works on is the one the tracker keeps for the key (exactly
\* one is created and kept), and a call isFieldUsageOk(k, t) that began after
\* a call for (k, t) had returned true, with no reset in between, returns
\* false.
NoClaimLost ==
  /\ \A t \in Tasks :
       (InFlight(t) /\ tasks[t].fieldMap # 0)
         => /\ HasKey(globalFieldUsage.m, tasks[t].msgKey)
            /\ globalFieldUsage.m[tasks[t].msgKey] = tasks[t].fieldMap
  /\ \A t \in Tasks :
       (tasks[t].pc = "done" /\ tasks[t].claimed) => tasks[t].ret = "false"

(***************************************************************************)
(* C10: the enums of a name that several dictionaries declare.             *)
(***************************************************************************)
\* The enum map of a field type: value -> description.
EnumsOf(h, ft) ==
  IF h.fieldTypes[ft].Enums = 0 THEN EmptyMap ELSE h.enumMaps[h.fieldTypes[ft].Enums]

\* The names every dictionary passed declares.
SharedNames ==
  {n \in DOMAIN heap.dicts[1].FieldTypeByName :
     \A d \in DOMAIN heap.dicts : n \in DOMAIN heap.dicts[d].FieldTypeByName}

\* What BuildGlobalFieldTypes made of the entry `later` of a dictionary,
\* given the entry `earlier` the lookup held for the name when the dictionary
\* was scanned: the entry keeps its own enums; it has every value of the
\* earlier entry, except a value whose description is that of an enum it
\* has under another value; and a value it gained is a value of the earlier
\* entry, with its description, which no other value of the entry has.
EnumUnion(before, old, now) ==
  /\ \A v \in DOMAIN before : v \in DOMAIN now /\ now[v] = before[v]
  /\ \A v \in DOMAIN old :
       v \in DOMAIN now \/ \E w \in DOMAIN now : w # v /\ now[w] = old[v]
  /\ \A v \in DOMAIN now \ DOMAIN before :
       /\ v \in DOMAIN old
       /\ now[v] = old[v]
       /\ \A w \in DOMAIN now \ {v} : now[w] # now[v]

\* C10: after BuildGlobalFieldTypes(specs), the lookup's entry for a name
\* that the dictionaries declare is the entry of the last dictionary, and the
\* entry of each dictionary after the first carries its own enum values plus
\* the enum values of the entry before it, except an earlier value whose
\* description is the description of an enum present under another value.
GlobalEnumUnion ==
  lastOp.op = "global" =>
    \A n \in SharedNames :
      /\ globalFieldTypesLookup[n]
           = heap.dicts[lastOp.specs[Len(lastOp.specs)]].FieldTypeByName[n]
      /\ \A k \in 2..Len(lastOp.specs) :
           EnumUnion(EnumsOf(prev, heap.dicts[lastOp.specs[k]].FieldTypeByName[n]),
                     EnumsOf(heap, heap.dicts[lastOp.specs[k - 1]].FieldTypeByName[n]),
                     EnumsOf(heap, heap.dicts[lastOp.specs[k]].FieldTypeByName[n]))

\* BuildGlobalFieldTypes has run and the entry of "SecurityType" has gained
\* a value of an earlier dictionary and has left out another one, a synonym.
GlobalEnumGained ==
  /\ lastOp.op = "global"
  /\ EnumValues(heap, globalFieldTypesLookup["SecurityType"])
       \ EnumValues(prev, globalFieldTypesLookup["SecurityType"]) # {}
  /\ \E d \in DOMAIN heap.dicts :
       EnumValues(heap, heap.dicts[d].FieldTypeByName["SecurityType"])
         \ EnumValues(heap, globalFieldTypesLookup["SecurityType"]) # {}

(***************************************************************************)
(* C12: the sorted list against the lookup.                                *)
(***************************************************************************)
\* C12: after BuildGlobalFieldTypes, GlobalFieldTypes is in non-decreasing
\* tag order and holds every entry the lookup holds, the entries that the
\* scan over the names of the dictionaries added included.
GlobalListComplete ==
  lastOp.op = "global" =>
    /\ \A i, j \in DOMAIN GlobalFieldTypes :
         i < j => heap.fieldTypes[GlobalFieldTypes[i]].tag
                    <= heap.fieldTypes[GlobalFieldTypes[j]].tag
    /\ \A n \in DOMAIN globalFieldTypesLookup :
         \E i \in DOMAIN GlobalFieldTypes : GlobalFieldTypes[i] = globalFieldTypesLookup[n]

(***************************************************************************)
(* C13: the keys of the catalog are the tags of its entries.               *)
(***************************************************************************)
\* In the heap h, every key of the dictionary's FieldTypeByTag is the tag of
\* the entry it maps to.
KeysAreTags(h, dict) ==
  \A k \in DOMAIN h.dicts[dict].FieldTypeByTag :
    h.fieldTypes[h.dicts[dict].FieldTypeByTag[k]].tag = k

\* C13: if every key of A.FieldTypeByTag and of B.FieldTypeByTag was the
\* tag of its entry before A.Merge(B), every key of A.FieldTypeByTag is the
\* tag of its entry after it, the entries that came in through the fields of
\* components and the children of groups included.
CatalogKeysConsistent ==
  (Merged /\ KeysAreTags(prev, lastOp.ours) /\ KeysAreTags(prev, lastOp.other))
    => KeysAreTags(heap, lastOp.ours)

=============================================================================
